---- MODULE Spec2Model ----
(***************************************************************************)
(* State-machine model of dl_training/self_supervision/sim_clr.py: the     *)
(* SimCLR trainer (train, test, features_avg_test, get_output_pairs,       *)
(* update_metrics) and the paired-view dataset adapters.                   *)
(*                                                                         *)
(* A call of one of the three public methods is modelled as a preamble     *)
(* action (the straight-line code before the loop), one action per loop    *)
(* iteration, and a return action.  `calls` is the ordered log of the      *)
(* calls the method makes on its collaborators (model, optimizer, loss,    *)
(* loader, visualizer); `yielded` records what the loader yielded.         *)
(*                                                                         *)
(* Numbers that the code divides by nb_batch are kept as numerators; the   *)
(* denominator is kept beside them, so no rounding is modelled.            *)
(***************************************************************************)
EXTENDS Integers, Sequences, FiniteSets, TLC

\* ---------------------------------------------------------------- bounds
MaxSamples == 3      \* samples in the dataset behind the loader
MaxBatchSize == 2    \* loader batch size
MaxM == 6            \* largest M handed to features_avg_test
MinM == 2            \* M ranges over -MinM .. MaxM (in halves)
MaxOutcome == 1      \* per-batch numeric outcomes are 0..MaxOutcome

\* ------------------------------------------------------- program constants
RefreshEvery == 40                 \* iteration % 40 == 0
SUFFIX == " on validation set"

\* ------------------------------------------------------------ input sets
MetricNames == { <<"accuracy">>, <<"balanced_accuracy">> }   \* self.metrics keys
AuxNames == { <<"aux">> }                                      \* loss.get_aux_losses() keys
Samplers == { "SequentialSampler", "RandomSampler" }
Outcomes == 0..MaxOutcome
Labels == {0, 1}

VARIABLES
    pc,              \* "idle" | "running" | "done"
    op,              \* "none" | "train" | "test" | "features_avg_test"
    cfg,             \* the arguments and collaborators of the current call
    training,        \* self.model.training
    calls,           \* log of calls on collaborators: <<name, batch, extra>>
    yielded,         \* dataitems the loader has yielded in this call
    M,               \* local M of features_avg_test (after int())
    nb_batch,        \* local nb_batch
    pass,            \* passes over the loader completed (features_avg_test)
    batch,           \* batches drawn in the current pass
    iteration,       \* local iteration of train
    values,          \* local values dict: key -> numerator (over nb_batch)
    losses,          \* local losses list of train
    loss,            \* local loss of test (numerator over nb_batch)
    visuals,         \* local visuals list of test
    y, y_true, X,    \* local result lists
    current_y, current_y_true,
    result,          \* "none" | "returned" | the exception raised
    ret              \* the returned tuple

vars == << pc, op, cfg, training, calls, yielded, M, nb_batch, pass, batch,
           iteration, values, losses, loss, visuals, y, y_true, X,
           current_y, current_y_true, result, ret >>

\* --------------------------------------------------------------- helpers
RECURSIVE SumSeq(_)
SumSeq(s) == IF s = <<>> THEN 0 ELSE s[1] + SumSeq(Tail(s))

EmptyDict == [k \in {} |-> 0]

\* name + " on validation set"
AddSuffix(name) == Append(name, SUFFIX)
HasSuffix(key) == Len(key) > 0 /\ key[Len(key)] = SUFFIX

\* faulty variant: the entry is overwritten instead of added to
Accumulate_Overwrite(vals, key, x) ==
    [k \in DOMAIN vals \cup {key} |-> IF k = key THEN x ELSE vals[k]]

\* if name not in values: values[name] = 0 ; values[name] += x / nb_batch
Accumulate(vals, key, x) ==
    IF key \in DOMAIN vals
    THEN [vals EXCEPT ![key] = @ + x]
    ELSE [k \in DOMAIN vals \cup {key} |-> IF k = key THEN x ELSE vals[k]]

\* ------------------------------------------------------------ the loader
\* len(loader) of a map-style loader: ceil(n / batch_size)
NumBatches(n, bs) == (n + bs - 1) \div bs
BatchFirst(b, bs) == (b - 1) * bs + 1
BatchSize(b, n, bs) == IF b * bs <= n THEN bs ELSE n - (b - 1) * bs

\* One augmented view of sample s: the dataset draws a fresh augmentation
\* on every __getitem__, so a view is identified by (sample, pass, view).
View(s, k, v) == [sample |-> s, pass |-> k, view |-> v]

\* SimCLROpenBHB.__getitem__ / SimCLRSubOpenBHB.__getitem__: np.stack((x1, x2))
GetItemInputs(s, k) == << View(s, k, 0), View(s, k, 1) >>

\* dataitem.inputs of batch b in pass k
BatchInputs(b, k, n, bs) ==
    [i \in 1..BatchSize(b, n, bs) |-> GetItemInputs(BatchFirst(b, bs) + i - 1, k)]

\* ------------------------------------------------- external collaborators
\* self.model(x): a fixed function of its input
model(x) == [feat |-> x]

\* float(batch_loss), float(metric(logits, target)), aux_loss for a batch
\* whose content is summarised by the outcome q
LossOf(q) == q + 1
MetricOf(name, q) == IF name = <<"accuracy">> THEN q ELSE 2 - q
AuxOf(name, q) == 2 * q + 1

\* self.model.train() and self.model.eval(): the new value of model.training
model_train(t) == TRUE
\* faulty variant: eval() leaves the mode as it was
model_eval_Noop(t) == t
model_eval(t) == FALSE

\* ------------------------------------------------------ get_output_pairs
\* faulty variant: z_j is computed from view 0 as well
get_output_pairs_SameView(inputs) ==
    << [i \in DOMAIN inputs |-> model(inputs[i][1])],
       [i \in DOMAIN inputs |-> model(inputs[i][1])] >>

get_output_pairs(inputs) ==
    << [i \in DOMAIN inputs |-> model(inputs[i][1])],
       [i \in DOMAIN inputs |-> model(inputs[i][2])] >>

ForwardCalls(b) == << <<"model.forward", b, 0>>, <<"model.forward", b, 1>> >>

\* -------------------------------------------------------- update_metrics
RECURSIVE MetricLoop(_, _, _, _)
MetricLoop(vals, names, validation, q) ==
    IF names = {} THEN vals
    ELSE LET name == CHOOSE m \in names : TRUE
             key == IF validation THEN AddSuffix(name) ELSE name
         IN MetricLoop(Accumulate(vals, key, MetricOf(name, q)),
                       names \ {name}, validation, q)

\* nargs is len(args): logits is args[0], target is args[1] when present
update_metrics(vals, metrics, nargs, validation, q) ==
    IF nargs >= 2 THEN MetricLoop(vals, metrics, validation, q) ELSE vals

\* update_metrics divides by nb_batch once per metric
MetricsDivide(metrics, nargs) == nargs >= 2 /\ metrics # {}

\* ---------------------------------------------------- auxiliary losses
RECURSIVE AuxLoop(_, _, _, _)
AuxLoop(vals, names, validation, q) ==
    IF names = {} THEN vals
    ELSE LET name == CHOOSE a \in names : TRUE
             key == IF validation THEN AddSuffix(name) ELSE name
         IN AuxLoop(Accumulate(vals, key, AuxOf(name, q)),
                    names \ {name}, validation, q)

TrainAux(vals, aux, q) == AuxLoop(vals, aux, FALSE, q)
\* faulty variant: the auxiliary-loss keys of test are left unsuffixed
TestAux_NoSuffix(vals, aux, q) == AuxLoop(vals, aux, FALSE, q)
TestAux(vals, aux, q) == AuxLoop(vals, aux, TRUE, q)

\* ----------------------------------------------------------------- Init
NoCfg == [ Mraw |-> 0, sampler |-> "SequentialSampler", n |-> 0, bs |-> 1,
           len |-> 0, labelled |-> FALSE, metrics |-> {}, aux |-> {},
           nargs |-> 0, with_visuals |-> FALSE, visualizer |-> FALSE ]

Init ==
    /\ pc = "idle"
    /\ op = "none"
    /\ cfg = NoCfg
    /\ training = TRUE
    /\ calls = <<>>
    /\ yielded = <<>>
    /\ M = 0
    /\ nb_batch = 0
    /\ pass = 0
    /\ batch = 0
    /\ iteration = 0
    /\ values = EmptyDict
    /\ losses = <<>>
    /\ loss = 0
    /\ visuals = <<>>
    /\ y = <<>>
    /\ y_true = <<>>
    /\ X = <<>>
    /\ current_y = <<>>
    /\ current_y_true = <<>>
    /\ result = "none"
    /\ ret = <<>>

\* locals every call frame starts with, and the collaborators' log
NewFrame ==
    /\ yielded' = <<>>
    /\ pass' = 0
    /\ batch' = 0
    /\ iteration' = 0
    /\ values' = EmptyDict
    /\ losses' = <<>>
    /\ loss' = 0
    /\ visuals' = <<>>
    /\ y' = <<>>
    /\ y_true' = <<>>
    /\ X' = <<>>

Callable == pc = "idle"

Flag(b) == IF b THEN 1 ELSE 0

\* what the loop body has drawn from the loader
Item(k, b, labels, q) ==
    [ pass |-> k, batch |-> b, size |-> BatchSize(b, cfg.n, cfg.bs),
      labels |-> labels, q |-> q ]

Ratio(num, den) == [num |-> num, den |-> den]
Ratios(vals, den) == [k \in DOMAIN vals |-> Ratio(vals[k], den)]

\* ---------------------------------------------------------------- train
\* lines 82-90: the code before the first batch
TrainCall ==
    /\ Callable
    /\ \E n \in 0..MaxSamples, bs \in 1..MaxBatchSize, lab \in BOOLEAN,
          ms \in SUBSET MetricNames, ax \in SUBSET AuxNames, na \in 0..2,
          vz \in BOOLEAN :
       \E ln \in {0, NumBatches(n, bs), NumBatches(n, bs) + 1} :
          cfg' = [NoCfg EXCEPT !.n = n, !.bs = bs, !.len = ln, !.labelled = lab,
                               !.metrics = ms, !.aux = ax, !.nargs = na,
                               !.visualizer = vz]
    /\ pc' = "running"
    /\ op' = "train"
    /\ training' = model_train(training)
    /\ nb_batch' = cfg'.len
    /\ calls' = << <<"model.train", 0, 0>>, <<"len", 0, 0>>, <<"iter", 0, 0>> >>
    /\ NewFrame
    /\ result' = "none"
    /\ ret' = <<>>
    /\ UNCHANGED << M, current_y, current_y_true >>

\* faulty variant: the optimiser steps before the backward pass
TrainCycle_StepBeforeBackward(b, labelled) ==
    << <<"optimizer.zero_grad", b, 0>>,
       <<"model.forward", b, 0>>,
       <<"model.forward", b, 1>>,
       <<"loss", b, IF labelled THEN 1 ELSE 0>>,
       <<"optimizer.step", b, 0>>,
       <<"backward", b, 0>> >>

\* lines 94-102: the optimisation cycle of batch b
TrainCycle(b, labelled) ==
    << <<"optimizer.zero_grad", b, 0>> >>
    \o ForwardCalls(b)
    \o << <<"loss", b, Flag(labelled)>>,
          <<"backward", b, 0>>,
          <<"optimizer.step", b, 0>> >>

\* lines 111-116
VisualizerCalls(it, b, vz) ==
    IF it % RefreshEvery = 0 /\ vz
    THEN << <<"visualizer.refresh_current_metrics", b, 0>>,
            <<"model.get_current_visuals", b, 0>>,
            <<"visualizer.display_images", b, 0>> >>
    ELSE <<>>

\* lines 90-119: one iteration of the training loop
TrainBatch ==
    /\ pc = "running"
    /\ op = "train"
    /\ batch < NumBatches(cfg.n, cfg.bs)
    /\ \E q \in Outcomes :
         LET b == batch + 1
             cycle == << <<"next", b, 0>> >> \o TrainCycle(b, cfg.labelled)
             auxRaises == nb_batch = 0 /\ cfg.aux # {}
             metricRaises == nb_batch = 0 /\ MetricsDivide(cfg.metrics, cfg.nargs)
             withAux == TrainAux(values, cfg.aux, q)
             vis == VisualizerCalls(iteration, b, cfg.visualizer)
         IN /\ yielded' = Append(yielded, Item(0, b, <<>>, q))
            /\ batch' = b
            /\ IF auxRaises
               THEN /\ calls' = calls \o cycle
                    /\ pc' = "done"
                    /\ result' = "ZeroDivisionError"
                    /\ UNCHANGED << values, losses, iteration >>
               ELSE IF metricRaises
               THEN /\ calls' = calls \o cycle \o vis
                    /\ pc' = "done"
                    /\ result' = "ZeroDivisionError"
                    /\ values' = withAux
                    /\ losses' = Append(losses, LossOf(q))
                    /\ iteration' = iteration + 1
               ELSE /\ calls' = calls \o cycle \o vis
                    /\ pc' = pc
                    /\ result' = result
                    /\ values' = update_metrics(withAux, cfg.metrics, cfg.nargs, FALSE, q)
                    /\ losses' = Append(losses, LossOf(q))
                    /\ iteration' = iteration + 1
    /\ UNCHANGED << op, cfg, training, M, nb_batch, pass, loss, visuals,
                    y, y_true, X, current_y, current_y_true, ret >>

\* np.mean(losses): the sum over the number of entries (nan when empty)
Mean(xs) == Ratio(SumSeq(xs), Len(xs))

\* lines 121-124
TrainReturn ==
    /\ pc = "running"
    /\ op = "train"
    /\ batch = NumBatches(cfg.n, cfg.bs)
    /\ pc' = "done"
    /\ result' = "returned"
    /\ ret' = << Mean(losses), Ratios(values, nb_batch) >>
    /\ UNCHANGED << op, cfg, training, calls, yielded, M, nb_batch, pass, batch,
                    iteration, values, losses, loss, visuals, y, y_true, X,
                    current_y, current_y_true >>

\* ----------------------------------------------------------------- test
\* lines 200-209
TestCall ==
    /\ Callable
    /\ \E n \in 0..MaxSamples, bs \in 1..MaxBatchSize, lab \in BOOLEAN,
          ms \in SUBSET MetricNames, ax \in SUBSET AuxNames, na \in 0..2,
          wv \in BOOLEAN :
       \E ln \in {0, NumBatches(n, bs), NumBatches(n, bs) + 1} :
          cfg' = [NoCfg EXCEPT !.n = n, !.bs = bs, !.len = ln, !.labelled = lab,
                               !.metrics = ms, !.aux = ax, !.nargs = na,
                               !.with_visuals = wv]
    /\ pc' = "running"
    /\ op' = "test"
    /\ training' = model_eval(training)
    /\ nb_batch' = cfg'.len
    /\ calls' = << <<"model.eval", 0, 0>>, <<"len", 0, 0>>, <<"iter", 0, 0>> >>
    /\ NewFrame
    /\ result' = "none"
    /\ ret' = <<>>
    /\ UNCHANGED << M, current_y, current_y_true >>

\* lines 214-221
TestForward(b, labelled, with_visuals) ==
    ForwardCalls(b)
    \o (IF with_visuals THEN << <<"model.get_current_visuals", b, 0>> >> ELSE <<>>)
    \o << <<"loss", b, Flag(labelled)>> >>

\* lines 223-229: the extends of y, y_true and X are commented out
TestCollect(lst, entries) == lst

\* lines 209-239: one iteration of the evaluation loop
TestBatch ==
    /\ pc = "running"
    /\ op = "test"
    /\ batch < NumBatches(cfg.n, cfg.bs)
    /\ \E q \in Outcomes :
         LET b == batch + 1
             inputs == BatchInputs(b, 0, cfg.n, cfg.bs)
             z == get_output_pairs(inputs)
             withMetrics == update_metrics(values, cfg.metrics, cfg.nargs, TRUE, q)
         IN /\ yielded' = Append(yielded, Item(0, b, <<>>, q))
            /\ batch' = b
            /\ calls' = calls \o << <<"next", b, 0>> >>
                              \o TestForward(b, cfg.labelled, cfg.with_visuals)
            /\ visuals' = IF cfg.with_visuals THEN Append(visuals, b) ELSE visuals
            /\ IF nb_batch = 0
               THEN /\ pc' = "done"
                    /\ result' = "ZeroDivisionError"
                    /\ UNCHANGED << loss, values, y, y_true, X >>
               ELSE /\ pc' = pc
                    /\ result' = result
                    /\ loss' = loss + LossOf(q)
                    /\ y' = TestCollect(y, z[1])
                    /\ y_true' = TestCollect(y_true, z[2])
                    /\ X' = TestCollect(X, inputs)
                    /\ values' = TestAux(withMetrics, cfg.aux, q)
    /\ UNCHANGED << op, cfg, training, M, nb_batch, pass, iteration, losses,
                    current_y, current_y_true, ret >>

\* lines 241-249
TestReturn ==
    /\ pc = "running"
    /\ op = "test"
    /\ batch = NumBatches(cfg.n, cfg.bs)
    /\ pc' = "done"
    /\ result' = "returned"
    /\ ret' = LET r == << y, y_true, X,
                          Ratio(loss, IF batch = 0 THEN 1 ELSE nb_batch),
                          Ratios(values, nb_batch) >>
              IN IF cfg.with_visuals THEN Append(r, visuals) ELSE r
    /\ UNCHANGED << op, cfg, training, calls, yielded, M, nb_batch, pass, batch,
                    iteration, values, losses, loss, visuals, y, y_true, X,
                    current_y, current_y_true >>

\* ---------------------------------------------------- features_avg_test
\* The argument M is given in halves (h stands for h / 2), so that
\* non-integer arguments such as 2.5 are inputs too.
\* int(M): truncation toward zero
IntOf(h) == IF h >= 0 THEN h \div 2 ELSE -((-h) \div 2)

\* floor division, as Python's //
FloorDiv2(m) == m \div 2

\* faulty variant: the assertion asks for an odd M, as its message says
EvenCheck_Odd(m) == (m \div 2) * 2 # m

\* M//2 == M/2.0
EvenCheck(m) == FloorDiv2(m) * 2 = m

\* faulty variant: any sampler is accepted
IsSequential_Any(sampler) == sampler = sampler

\* isinstance(loader.sampler, SequentialSampler)
IsSequential(sampler) == sampler = "SequentialSampler"

\* range(M//2)
NumPasses(m) == IF FloorDiv2(m) > 0 THEN FloorDiv2(m) ELSE 0

\* lines 141-158: the code before the first batch
FeaturesCall ==
    /\ Callable
    /\ \E h \in (-2 * MinM)..(2 * MaxM + 1), sm \in Samplers,
          n \in 0..MaxSamples, bs \in 1..MaxBatchSize, lab \in BOOLEAN :
          cfg' = [NoCfg EXCEPT !.Mraw = h, !.sampler = sm, !.n = n, !.bs = bs,
                               !.len = NumBatches(n, bs), !.labelled = lab]
    /\ op' = "features_avg_test"
    /\ M' = IntOf(cfg'.Mraw)
    /\ NewFrame
    /\ ret' = <<>>
    /\ IF ~EvenCheck(M')
       THEN /\ pc' = "done"
            /\ result' = "AssertionError: Nb of feature vectors averaged should be odd"
            /\ calls' = <<>>
            /\ UNCHANGED << training, nb_batch, current_y, current_y_true >>
       ELSE IF ~IsSequential(cfg'.sampler)
       THEN /\ pc' = "done"
            /\ result' = "ValueError"
            /\ calls' = <<>>
            /\ UNCHANGED << training, nb_batch, current_y, current_y_true >>
       ELSE /\ pc' = "running"
            /\ result' = "none"
            /\ training' = model_eval(training)
            /\ nb_batch' = cfg'.len
            /\ calls' = << <<"model.eval", 0, 0>>, <<"len", 0, 0>> >>
                        \o (IF NumPasses(M') > 0 THEN << <<"iter", 0, 0>> >> ELSE <<>>)
            /\ current_y' = << <<>>, <<>> >>
            /\ current_y_true' = <<>>

\* lines 159-165: one batch of the current pass
FeaturesBatch ==
    /\ pc = "running"
    /\ op = "features_avg_test"
    /\ pass < NumPasses(M)
    /\ batch < NumBatches(cfg.n, cfg.bs)
    /\ LET b == batch + 1
           sz == BatchSize(b, cfg.n, cfg.bs)
           inputs == BatchInputs(b, pass, cfg.n, cfg.bs)
           z == get_output_pairs(inputs)
       IN \E labels \in [1..sz -> Labels] :
            /\ yielded' = Append(yielded,
                                 Item(pass, b, IF cfg.labelled THEN labels ELSE <<>>, 0))
            /\ batch' = b
            /\ calls' = calls \o << <<"next", b, pass>> >> \o ForwardCalls(b)
            /\ current_y_true' = IF cfg.labelled THEN current_y_true \o labels
                                 ELSE current_y_true
            /\ current_y' = << current_y[1] \o z[1], current_y[2] \o z[2] >>
    /\ UNCHANGED << pc, op, cfg, training, M, nb_batch, pass, iteration, values,
                    losses, loss, visuals, y, y_true, X, result, ret >>

\* lines 166-167, then line 158 of the next pass
FeaturesEndPass ==
    /\ pc = "running"
    /\ op = "features_avg_test"
    /\ pass < NumPasses(M)
    /\ batch = NumBatches(cfg.n, cfg.bs)
    /\ y' = y \o current_y
    /\ y_true' = y_true \o << current_y_true, current_y_true >>
    /\ pass' = pass + 1
    /\ batch' = 0
    /\ current_y' = << <<>>, <<>> >>
    /\ current_y_true' = <<>>
    /\ calls' = IF pass + 1 < NumPasses(M)
                THEN Append(calls, <<"iter", 0, pass + 1>>) ELSE calls
    /\ UNCHANGED << pc, op, cfg, training, yielded, M, nb_batch, iteration, values,
                    losses, loss, visuals, X, result, ret >>

\* np.array(rows) of equally long rows: its shape and its entries
NpArray(rows) ==
    [ shape |-> << Len(rows), IF Len(rows) = 0 THEN 0 ELSE Len(rows[1]) >>,
      data |-> rows ]

\* a.swapaxes(0, 1)
Swapaxes(a) ==
    [ shape |-> << a.shape[2], a.shape[1] >>,
      data |-> [s \in 1..a.shape[2] |-> [r \in 1..a.shape[1] |-> a.data[r][s]]] ]

\* np.array(y_true)[0,:] needs a 2-d array: np.array([]) is 1-d
CanIndexRow0(rows) == Len(rows) > 0

\* faulty variant: only the two copies of each pass are compared
SanityCheck_WithinPass(rows) ==
    \A r \in 1..Len(rows) : r % 2 = 0 => rows[r] = rows[r - 1]

\* np.all(np.array(y_true)[0,:] == np.array(y_true))
SanityCheck(rows) == \A r \in 1..Len(rows) : rows[r] = rows[1]

\* lines 168-175
FeaturesReturn ==
    /\ pc = "running"
    /\ op = "features_avg_test"
    /\ pass >= NumPasses(M)
    /\ pc' = "done"
    /\ IF ~CanIndexRow0(y_true)
       THEN /\ result' = "IndexError"
            /\ UNCHANGED << y, y_true, ret >>
       ELSE IF ~SanityCheck(y_true)
       THEN /\ result' = "AssertionError: Wrong iteration order through the dataloader"
            /\ UNCHANGED << y, y_true, ret >>
       ELSE /\ result' = "returned"
            /\ y' = Swapaxes(NpArray(y))
            /\ y_true' = Swapaxes(NpArray(y_true))
            /\ ret' = << y', y_true' >>
    /\ UNCHANGED << op, cfg, training, calls, yielded, M, nb_batch, pass, batch,
                    iteration, values, losses, loss, visuals, X,
                    current_y, current_y_true >>

\* The call is over: its frame is dropped, the model keeps its mode.
Finish ==
    /\ pc = "done"
    /\ pc' = "idle"
    /\ op' = "none"
    /\ cfg' = NoCfg
    /\ calls' = <<>>
    /\ M' = 0
    /\ nb_batch' = 0
    /\ current_y' = <<>>
    /\ current_y_true' = <<>>
    /\ NewFrame
    /\ result' = "none"
    /\ ret' = <<>>
    /\ UNCHANGED training

\* ------------------------------------------------------------------ Next
Next ==
    \/ TrainCall
    \/ TrainBatch
    \/ TrainReturn
    \/ TestCall
    \/ TestBatch
    \/ TestReturn
    \/ FeaturesCall
    \/ FeaturesBatch
    \/ FeaturesEndPass
    \/ FeaturesReturn
    \/ Finish

Spec == Init /\ [][Next]_vars

\* ================================================================ claims
AssertEven == "AssertionError: Nb of feature vectors averaged should be odd"
AssertOrder == "AssertionError: Wrong iteration order through the dataloader"

InFeatures == op = "features_avg_test"
IsOdd(m) == m % 2 = 1
CallNames == { calls[i][1] : i \in 1..Len(calls) }
Touched == CallNames \cap {"model.eval", "model.forward", "iter", "next"} # {}

C2_NonSequentialSamplerRejected ==
    (InFeatures /\ ~IsOdd(IntOf(cfg.Mraw)) /\ cfg.sampler # "SequentialSampler") =>
        /\ pc = "done"
        /\ result = "ValueError"
        /\ ~Touched

C2_Witness ==
    /\ InFeatures
    /\ M = 4
    /\ cfg.sampler = "RandomSampler"
    /\ cfg.n > 0
    /\ result = "ValueError"
    /\ training

Returned(o) == op = o /\ pc = "done" /\ result = "returned"

\* C3: whenever features_avg_test returns (M even, sequential loader over n
\* samples), y and y_true both have first two dimensions (n, M).
C3_ResultShapes ==
    Returned("features_avg_test") =>
        /\ y.shape = << cfg.n, M >>
        /\ y_true.shape = << cfg.n, M >>

\* the labels pass k of the loader yielded, in order
RECURSIVE PassLabels(_, _)
PassLabels(items, k) ==
    IF items = <<>> THEN <<>>
    ELSE (IF items[1].pass = k THEN items[1].labels ELSE <<>>)
         \o PassLabels(Tail(items), k)

PassesDiffer ==
    \E k \in 0..(pass - 1) : PassLabels(yielded, k) # PassLabels(yielded, 0)

\* C4: features_avg_test returns only if every pass over the loader yielded
\* the label sequence of the first pass; when some pass yielded another
\* sequence the call ends with the assertion "Wrong iteration order through
\* the dataloader".
C4_LoaderOrderSanityCheck ==
    /\ Returned("features_avg_test") => ~PassesDiffer
    /\ (InFeatures /\ pc = "done" /\ PassesDiffer) => result = AssertOrder

C4_Witness ==
    /\ InFeatures
    /\ pc = "done"
    /\ cfg.n >= 2
    /\ pass = 3
    /\ PassLabels(yielded, 1) = PassLabels(yielded, 0)
    /\ PassLabels(yielded, 2) # PassLabels(yielded, 0)
    /\ result = AssertOrder

RECURSIVE SamplesYielded(_)
SamplesYielded(items) ==
    IF items = <<>> THEN 0 ELSE items[1].size + SamplesYielded(Tail(items))

\* C5: after test returns over a loader that yielded n > 0 samples, the
\* returned y, y_true and X each hold one entry per sample yielded.
C5_TestReturnsPerSampleData ==
    (Returned("test") /\ SamplesYielded(yielded) > 0) =>
        /\ Len(ret[1]) = SamplesYielded(yielded)
        /\ Len(ret[2]) = SamplesYielded(yielded)
        /\ Len(ret[3]) = SamplesYielded(yielded)

\* sums of the per-batch quantities over the batches yielded
RECURSIVE SumLoss(_)
SumLoss(items) ==
    IF items = <<>> THEN 0 ELSE LossOf(items[1].q) + SumLoss(Tail(items))
RECURSIVE SumMetric(_, _)
SumMetric(items, name) ==
    IF items = <<>> THEN 0
    ELSE MetricOf(name, items[1].q) + SumMetric(Tail(items), name)
RECURSIVE SumAux(_, _)
SumAux(items, name) ==
    IF items = <<>> THEN 0
    ELSE AuxOf(name, items[1].q) + SumAux(Tail(items), name)

MetricKeysExpected == IF cfg.nargs >= 2 THEN cfg.metrics ELSE {}

Aggregated ==
    LET nb == Len(yielded) IN
    /\ ret[1] = Ratio(SumLoss(yielded), nb)
    /\ DOMAIN ret[2] = cfg.aux \cup MetricKeysExpected
    /\ \A name \in cfg.aux : ret[2][name] = Ratio(SumAux(yielded, name), nb)
    /\ \A name \in MetricKeysExpected :
          ret[2][name] = Ratio(SumMetric(yielded, name), nb)

IsCycleCall(e) ==
    e[1] \in {"optimizer.zero_grad", "model.forward", "loss", "backward",
              "optimizer.step"}
IsStep(e) == e[1] = "optimizer.step"
NameBatch(e) == << e[1], e[2] >>

\* C7: in train the optimiser cycles of the batches follow one another in
\* the log, one per batch yielded, each being zero_grad, forward on view 0,
\* forward on view 1, loss, backward, step; when train returns the number of
\* optimizer.step calls is the number of batches yielded.
C7_TrainCycleOrder ==
    op = "train" =>
        LET core == SelectSeq(calls, IsCycleCall) IN
        /\ Len(core) = 6 * Len(yielded)
        /\ \A b \in 1..Len(yielded) :
             LET o == 6 * (b - 1) IN
             /\ NameBatch(core[o + 1]) = <<"optimizer.zero_grad", b>>
             /\ core[o + 2] = <<"model.forward", b, 0>>
             /\ core[o + 3] = <<"model.forward", b, 1>>
             /\ NameBatch(core[o + 4]) = <<"loss", b>>
             /\ NameBatch(core[o + 5]) = <<"backward", b>>
             /\ NameBatch(core[o + 6]) = <<"optimizer.step", b>>
        /\ result = "returned" => Len(SelectSeq(calls, IsStep)) = Len(yielded)

C7_Witness ==
    /\ Returned("train")
    /\ Len(yielded) >= 2
    /\ Len(SelectSeq(calls, IsStep)) = Len(yielded)

\* C8: in the y features_avg_test returns, row s holds at column 2k the
\* model output for view 0 of sample s in pass k and at column 2k+1 the
\* output for view 1 of that sample in that pass (columns counted from 0).
C8_PairedOutputBookkeeping ==
    Returned("features_avg_test") =>
        /\ Len(y.data) = cfg.n
        /\ \A s \in 1..cfg.n : \A k \in 0..(FloorDiv2(M) - 1) :
             /\ y.data[s][2 * k + 1] = model(View(s, k, 0))
             /\ y.data[s][2 * k + 2] = model(View(s, k, 1))

C8_Witness ==
    /\ Returned("features_avg_test")
    /\ cfg.n >= 3
    /\ cfg.bs = 2
    /\ M = 6
    /\ y.data[3][6] = model(View(3, 2, 1))

UpdatesModel ==
    CallNames \cap {"optimizer.zero_grad", "optimizer.step", "backward"} # {}

\* C10: test and features_avg_test never call optimizer.zero_grad,
\* optimizer.step or backward, and the model is in eval mode from before
\* the first batch until the call is over; train has the model in train
\* mode before its first batch.
C10_EvaluationLeavesModelAlone ==
    /\ op \in {"test", "features_avg_test"} =>
          /\ ~UpdatesModel
          /\ (pc = "running" \/ result = "returned" \/ Len(yielded) > 0) =>
                /\ ~training
                /\ calls[1][1] = "model.eval"
    /\ op = "train" =>
          /\ training
          /\ calls[1][1] = "model.train"

C10_Witness ==
    /\ op = "test"
    /\ pc = "running"
    /\ Len(yielded) >= 2
    /\ ~training

====
